---- MODULE Spec2Model ----
(***************************************************************************)
(* TimeKeeper (src/time_keeper.py): the session/accumulation state machine *)
(* of TimeKeeperManager, the host timer that drives its periodic flush,    *)
(* the modal refresh operator, the status-bar draw function and the        *)
(* load/save/startup handlers.                                             *)
(*                                                                         *)
(* Time is counted in whole seconds.  time.time() is the variable now; it  *)
(* never decreases and advances in multiples of Quantum.  The scheduler    *)
(* fires every 0.3 s, far more often than the clock of the model moves, so *)
(* a timer callback may run at every instant of the model.                 *)
(***************************************************************************)
EXTENDS Integers, Sequences, FiniteSets, TLC

\* ------------------------------------------------------------------ bounds
Quantum   == 5     \* the clock advances in steps of Quantum seconds
MaxJump   == 3     \* ... by at most MaxJump quanta at once
MaxTime   == 30    \* time.time() stays <= MaxTime
MaxModals == 2     \* modal operator instances the host runs
MaxWrites == 1     \* times the host writes a document to its file

\* ------------------------------------------------------- program constants
update_interval == 10        \* TimeKeeperManager.update_interval
DisplayCeiling  == 999999    \* draw_timekeeper_header: upper clamp
timer_interval  == 3         \* _timer_callback: 0.3 s, in tenths of a second

None == "None"
Docs == {"A", "B"}           \* the documents (.blend files) the host can open

\* TimeKeeperData: a freshly created property group
TimeKeeperData == [total_time |-> 0, session_start_time |-> 0]

VARIABLES
    now,            \* time.time()
    is_running,     \* TimeKeeperManager.is_running
    timer,          \* TimeKeeperManager.timer: None or the handle register() gave
    last_update_time,        \* TimeKeeperManager.last_update_time
    modal_operator_running,  \* TimeKeeperManager.modal_operator_running
    data,           \* bpy.context.scene.timekeeper_data of the open document
    scene,          \* the open document
    disk,           \* per document, the timekeeper_data last written to its file
    timers,         \* live host registrations of TimeKeeperManager._timer_callback
    inflight,       \* a callback the host dispatched before its registration was dropped
    modals,         \* live TIMEKEEPER_OT_Modal instances (each owns an event timer)
    addon,          \* register() has run and unregister() has not
    ctx,            \* bpy.context.scene is reachable from the running callback
    startup_timer,  \* the one-shot timer of timekeeper_startup is pending
    phase,          \* where the host is in a file operation
    writes,         \* how many times the host has written a file
    time_text,      \* the label draw_timekeeper_header drew last
    s_at,           \* history: time of the start_session() that began the session
    s_total         \* history: data.total_time when that start_session() ran

vars == <<now, is_running, timer, last_update_time, modal_operator_running, data,
          scene, disk, timers, inflight, modals, addon, ctx, startup_timer, phase,
          writes, time_text, s_at, s_total>>

\* hasattr(bpy.context.scene, 'timekeeper_data')
accessible == addon /\ ctx

\* The manager, the record it writes and the host registrations, as one value
\* that the methods below transform.
Mgr == [is_running |-> is_running, timer |-> timer,
        last_update_time |-> last_update_time,
        modal_operator_running |-> modal_operator_running,
        data |-> data, timers |-> timers, modals |-> modals,
        s_at |-> s_at, s_total |-> s_total]

\* ------------------------------------------------ TimeKeeperManager methods
\* Each method is an operator from the value m before the call to the value
\* after it; t is time.time() and acc says whether
\* bpy.context.scene.timekeeper_data can be read (otherwise the access raises
\* and the method's except clause runs).

\* an unregistration that forgets to drop the handle
unregister_timer_keeps_handle(m) ==
    IF m.timer # None
    THEN [m EXCEPT !.timers = @ - 1]
    ELSE m

\* _unregister_timer: the handle, when held, names a live registration
unregister_timer(m) ==
    IF m.timer # None
    THEN [m EXCEPT !.timers = @ - 1, !.timer = None]
    ELSE m

\* _register_timer: out is what bpy.app.timers.register does: it registers
\* the callback and returns its handle, or raises
register_timer(m, out) ==
    IF m.timer = None /\ out = "handle"
    THEN [m EXCEPT !.timer = "handle", !.timers = @ + 1]
    ELSE m

\* stop_session measuring its final interval from the session's anchor, as
\* _update_total_time (lines 104-114) does
stop_flush_from_anchor(m, t, acc) ==
    IF m.last_update_time > 0 /\ acc
    THEN [m EXCEPT !.data.total_time = @ + (t - m.data.session_start_time)]
    ELSE m

\* stop_session, lines 91-97: the final update of the record
stop_flush(m, t, acc) ==
    IF m.last_update_time > 0 /\ acc
    THEN [m EXCEPT !.data.total_time = @ + (t - m.last_update_time)]
    ELSE m

\* stop_session, lines 100-102: what it does after the try block
stop_clear(m) ==
    unregister_timer([m EXCEPT !.is_running = FALSE, !.last_update_time = 0,
                               !.s_at = 0, !.s_total = 0])

\* a stop that gives up when it cannot reach the record
stop_session_aborting(m, t, acc) ==
    IF m.is_running /\ acc THEN stop_clear(stop_flush(m, t, acc)) ELSE m

\* stop_session: an exception of the final update is caught at line 98 and
\* lines 100-102 run all the same
stop_session(m, t, acc) ==
    IF m.is_running THEN stop_clear(stop_flush(m, t, acc)) ELSE m

\* a reset that drops the unflushed interval
reset_without_flush(m, t, acc) ==
    [(IF m.is_running THEN stop_clear(m) ELSE m)
        EXCEPT !.modal_operator_running = FALSE, !.last_update_time = 0]

reset(m, t, acc) ==
    [stop_session(m, t, acc) EXCEPT !.modal_operator_running = FALSE,
                                    !.last_update_time = 0]

\* a start that resumes from the anchor stored in the record instead of
\* beginning a fresh interval
start_begin_resuming(m, t, out) ==
    register_timer([m EXCEPT !.last_update_time =
                                 IF m.data.session_start_time > 0
                                 THEN m.data.session_start_time ELSE t,
                             !.data.session_start_time = t,
                             !.is_running = TRUE,
                             !.s_at = t, !.s_total = m.data.total_time], out)

\* a start that leaves the anchor of the record as it finds it
start_begin_without_anchor(m, t, out) ==
    register_timer([m EXCEPT !.last_update_time = t,
                             !.is_running = TRUE,
                             !.s_at = t, !.s_total = m.data.total_time], out)

\* start_session, lines 74-80: the body run when Idle with the record at hand
start_begin(m, t, out) ==
    register_timer([m EXCEPT !.data.session_start_time = t,
                             !.last_update_time = t,
                             !.is_running = TRUE,
                             !.s_at = t, !.s_total = m.data.total_time], out)

\* a start without the "if not self.is_running" guard
start_session_unguarded(m, t, acc, out) ==
    IF acc THEN start_begin(m, t, out) ELSE m

\* a start that does not check for the record
start_session_unchecked(m, t, acc, out) ==
    IF ~m.is_running THEN start_begin(m, t, out) ELSE m

start_session(m, t, acc, out) ==
    IF ~m.is_running /\ acc THEN start_begin(m, t, out) ELSE m

\* start_session: the value it returns (lines 72, 80, 83, 84)
start_session_returns(m, acc) ==
    IF ~m.is_running THEN acc ELSE TRUE

\* the throttle with > for >=
update_due_strict(m, t) == t - m.last_update_time > update_interval

\* _periodic_update_total_time, line 124: the throttle
update_due(m, t) == t - m.last_update_time >= update_interval

\* a periodic update that stores the interval instead of adding it
periodic_flush_assigning(m, t) ==
    [m EXCEPT !.data.total_time = t - m.last_update_time,
              !.last_update_time = t]

\* a periodic update that does not move last_update_time
periodic_flush_keeps_mark(m, t) ==
    [m EXCEPT !.data.total_time = @ + (t - m.last_update_time)]

\* _periodic_update_total_time, lines 128-130
periodic_flush(m, t) ==
    [m EXCEPT !.data.total_time = @ + (t - m.last_update_time),
              !.last_update_time = t]

periodic_update_total_time(m, t, acc) ==
    IF ~m.is_running THEN m
    ELSE IF update_due(m, t) /\ acc /\ m.data.session_start_time > 0
         THEN periodic_flush(m, t)
         ELSE m

\* the live interval measured from the session's anchor
since_session_start(m, t) == t - m.data.session_start_time

\* get_current_total_time, lines 144-146: the time since the last update
since_last_update(m, t) == t - m.last_update_time

get_current_total_time(m, t, acc) ==
    IF ~acc THEN 0
    ELSE IF m.is_running /\ m.data.session_start_time > 0 /\ m.last_update_time > 0
         THEN m.data.total_time + since_last_update(m, t)
         ELSE m.data.total_time

\* _timer_callback: its effect on the manager, and whether it returns None
\* (the host then drops the registration) or 0.3 (the host re-arms it)
timer_callback(m, t, acc) ==
    IF ~m.is_running THEN m ELSE periodic_update_total_time(m, t, acc)

\* a callback that keeps itself registered whatever it finds
timer_callback_always_rearms(m) == {timer_interval}

\* _timer_callback: the value it returns (lines 183, 190, 240), as the set
\* of intervals the host re-arms it with: empty for None
timer_callback_returns(m) == IF ~m.is_running THEN {} ELSE {timer_interval}

timer_callback_stops(m) == timer_callback_returns(m) = {}

\* TIMEKEEPER_OT_Modal.cancel
modal_cancel(m) ==
    [m EXCEPT !.modals = @ - 1, !.modal_operator_running = FALSE]

\* a modal operator that also flushes the elapsed time on every TIMER event
modal_accumulating(m, t, acc) ==
    IF ~m.is_running THEN modal_cancel(m)
    ELSE IF acc THEN periodic_flush(m, t) ELSE m

\* TIMEKEEPER_OT_Modal.modal on a TIMER event: t and acc are at hand in the
\* method, which uses neither
modal(m, t, acc) == IF ~m.is_running THEN modal_cancel(m) ELSE m

\* TIMEKEEPER_OT_Modal.execute
execute(m) ==
    IF m.modal_operator_running THEN m
    ELSE [m EXCEPT !.modals = @ + 1, !.modal_operator_running = TRUE]

\* a save handler that adds the session's time, as _update_total_time does
save_pre_adding(m, t, acc) ==
    IF m.is_running /\ acc /\ m.data.session_start_time > 0
    THEN [m EXCEPT !.data.total_time = @ + (t - m.data.session_start_time),
                   !.data.session_start_time = t]
    ELSE m

\* timekeeper_save_pre_handler, lines 417-433
save_pre(m, t, acc) ==
    IF m.is_running /\ acc /\ m.data.session_start_time > 0
    THEN [m EXCEPT !.data.session_start_time = t]
    ELSE m

\* a load_pre handler that leaves the session running
load_pre_keeps_session(m, t, acc) == m

\* timekeeper_load_pre_handler, line 380
load_pre(m, t, acc) == stop_session(m, t, acc)

\* timekeeper_load_post_handler, lines 392-400
load_post(m, t, acc, out) ==
    IF ~acc THEN m ELSE start_session(reset(m, t, acc), t, acc, out)

\* timekeeper_startup, lines 455-478: op says whether bpy.ops can run the
\* modal operator from the timer's context
startup(m, t, acc, out, op) ==
    IF ~acc THEN m
    ELSE LET r == reset(m, t, acc)
             s == start_session(r, t, acc, out)
         IN IF start_session_returns(r, acc) /\ ~s.modal_operator_running /\ op
            THEN execute(s)
            ELSE s

\* ------------------------------------------------- draw_timekeeper_header
\* The label is modelled as the sequence of its characters, without the
\* constant prefix the code puts before the digits.

Digit(d) == CASE d = 0 -> "0" [] d = 1 -> "1" [] d = 2 -> "2" [] d = 3 -> "3"
              [] d = 4 -> "4" [] d = 5 -> "5" [] d = 6 -> "6" [] d = 7 -> "7"
              [] d = 8 -> "8" [] d = 9 -> "9"

\* format(n, "d") for n >= 0
RECURSIVE Decimal(_)
Decimal(n) == IF n < 10 THEN <<Digit(n)>> ELSE Decimal(n \div 10) \o <<Digit(n % 10)>>

\* format(n, "02d") for n >= 0
Pad2(n) == IF n < 10 THEN <<"0">> \o Decimal(n) ELSE Decimal(n)

\* lines 346-349: the check for abnormal values
clamp_display(total_seconds) ==
    IF total_seconds < 0 THEN 0
    ELSE IF total_seconds > DisplayCeiling THEN DisplayCeiling
    ELSE total_seconds

\* minutes computed without taking the hours out first
minutes_with_hours(total_seconds) == total_seconds \div 60

\* lines 352-354
hours_of(total_seconds)   == total_seconds \div 3600
minutes_of(total_seconds) == (total_seconds % 3600) \div 60
seconds_of(total_seconds) == total_seconds % 60

\* lines 357-360: the hour field
hour_field(hours) == IF hours > 99 THEN Decimal(hours) ELSE Pad2(hours)

\* lines 352-360
format_time(total_seconds) ==
    hour_field(hours_of(total_seconds)) \o <<":">> \o
    Pad2(minutes_of(total_seconds)) \o <<":">> \o
    Pad2(seconds_of(total_seconds))

\* lines 343-360: the text of the label
draw_text(m, t, acc) == format_time(clamp_display(get_current_total_time(m, t, acc)))

\* ----------------------------------------------------------------- actions
ApplyFields(m) ==
    /\ is_running' = m.is_running
    /\ timer' = m.timer
    /\ last_update_time' = m.last_update_time
    /\ modal_operator_running' = m.modal_operator_running
    /\ data' = m.data
    /\ timers' = m.timers
    /\ modals' = m.modals
    /\ s_at' = m.s_at
    /\ s_total' = m.s_total

\* The host may have dispatched a callback when a step drops its
\* registration; that callback still runs, once, and before the host does
\* anything else (every other action waits for it).
Dispatched(m) == IF m.timers < timers THEN {TRUE, FALSE} ELSE {inflight}

Apply(m) ==
    /\ ApplyFields(m)
    /\ inflight' \in Dispatched(m)

ManagerVars == <<is_running, timer, last_update_time, modal_operator_running,
                 data, timers, modals, s_at, s_total>>
HostVars == <<scene, disk, addon, ctx, startup_timer, phase, writes>>

\* what bpy.app.timers.register can do
RegisterOutcomes == {"handle", "raise"}

\* whether bpy.ops.timekeeper.modal_update() can run: the host runs at most
\* MaxModals instances, and the call needs a window context
OperatorOutcomes == IF modals < MaxModals THEN {TRUE, FALSE} ELSE {FALSE}

Init ==
    /\ now = Quantum
    /\ is_running = FALSE
    /\ timer = None
    /\ last_update_time = 0
    /\ modal_operator_running = FALSE
    /\ data = TimeKeeperData
    /\ scene = "A"
    /\ disk = [d \in Docs |-> TimeKeeperData]
    /\ timers = 0
    /\ inflight = FALSE
    /\ modals = 0
    /\ addon = FALSE
    /\ ctx = TRUE
    /\ startup_timer = FALSE
    /\ phase = "loop"
    /\ writes = 0
    /\ time_text = <<>>
    /\ s_at = 0
    /\ s_total = 0

\* time passes
Advance ==
    /\ ~inflight
    /\ \E k \in 1..MaxJump :
          /\ now + k * Quantum <= MaxTime
          /\ now' = now + k * Quantum
    /\ UNCHANGED <<ManagerVars, HostVars, time_text, inflight>>

\* the host calls back with or without a scene in bpy.context
HostContext ==
    /\ ~inflight
    /\ ctx' = ~ctx
    /\ UNCHANGED <<now, ManagerVars, scene, disk, addon, startup_timer, phase, writes,
                   time_text, inflight>>

\* register()
Register ==
    /\ ~inflight
    /\ phase = "loop" /\ ~addon
    /\ Apply(reset(Mgr, now, accessible))
    /\ addon' = TRUE
    /\ startup_timer' = TRUE
    /\ UNCHANGED <<now, scene, disk, ctx, phase, writes, time_text>>

\* unregister()
Unregister ==
    /\ ~inflight
    /\ phase = "loop" /\ addon
    /\ Apply(reset(Mgr, now, accessible))
    /\ addon' = FALSE
    /\ startup_timer' = FALSE
    /\ UNCHANGED <<now, scene, disk, ctx, phase, writes, time_text>>

\* timekeeper_startup(), run once by its timer
Startup ==
    /\ ~inflight
    /\ phase = "loop" /\ startup_timer
    /\ \E out \in RegisterOutcomes, op \in OperatorOutcomes :
          Apply(startup(Mgr, now, accessible, out, op))
    /\ startup_timer' = FALSE
    /\ UNCHANGED <<now, scene, disk, addon, ctx, phase, writes, time_text>>

\* timekeeper_manager.start_session() called directly
StartSession ==
    /\ ~inflight
    /\ phase = "loop"
    /\ \E out \in RegisterOutcomes : Apply(start_session(Mgr, now, accessible, out))
    /\ UNCHANGED <<now, HostVars, time_text>>

\* timekeeper_manager.stop_session() called directly
StopSession ==
    /\ ~inflight
    /\ phase = "loop"
    /\ Apply(stop_session(Mgr, now, accessible))
    /\ UNCHANGED <<now, HostVars, time_text>>

\* timekeeper_manager.reset() called directly
Reset ==
    /\ ~inflight
    /\ phase = "loop"
    /\ Apply(reset(Mgr, now, accessible))
    /\ UNCHANGED <<now, HostVars, time_text>>

\* the host runs one registered _timer_callback
TimerCallback ==
    /\ ~inflight
    /\ phase = "loop" /\ timers > 0
    /\ LET m == timer_callback(Mgr, now, accessible)
       IN Apply(IF timer_callback_stops(Mgr) THEN [m EXCEPT !.timers = @ - 1] ELSE m)
    /\ UNCHANGED <<now, HostVars, time_text>>

\* the host runs the callback it had dispatched before the registration was
\* dropped, before anything else; it ignores what the callback returns
InflightTick ==
    /\ inflight
    /\ ApplyFields(timer_callback(Mgr, now, accessible))
    /\ inflight' = FALSE
    /\ UNCHANGED <<now, HostVars, time_text>>

\* the host sends a TIMER event to one running modal operator
ModalTimer ==
    /\ ~inflight
    /\ phase = "loop" /\ modals > 0
    /\ Apply(modal(Mgr, now, accessible))
    /\ UNCHANGED <<now, HostVars, time_text>>

\* the host redraws the status bar
DrawHeader ==
    /\ ~inflight
    /\ phase = "loop" /\ addon
    /\ time_text' = draw_text(Mgr, now, accessible)
    /\ UNCHANGED <<now, ManagerVars, HostVars, inflight>>

\* the host is about to read a file: load_pre
LoadPre ==
    /\ ~inflight
    /\ phase = "loop" /\ addon
    /\ Apply(load_pre(Mgr, now, accessible))
    /\ phase' = "unload"
    /\ UNCHANGED <<now, scene, disk, addon, ctx, startup_timer, writes, time_text>>

\* the host reads file d: its record replaces the one in memory
HostRead ==
    /\ ~inflight
    /\ phase = "unload" \/ (phase = "loop" /\ ~addon)
    /\ \E d \in Docs :
          /\ scene' = d
          /\ data' = disk[d]
    /\ phase' = IF addon THEN "load" ELSE "loop"
    /\ UNCHANGED <<now, is_running, timer, last_update_time, modal_operator_running,
                   timers, modals, s_at, s_total, inflight,
                   disk, addon, ctx, startup_timer, writes, time_text>>

\* the file is read: load_post
LoadPost ==
    /\ ~inflight
    /\ phase = "load"
    /\ \E out \in RegisterOutcomes : Apply(load_post(Mgr, now, accessible, out))
    /\ phase' = "loop"
    /\ UNCHANGED <<now, scene, disk, addon, ctx, startup_timer, writes, time_text>>

\* the host is about to write the file: save_pre
SavePre ==
    /\ ~inflight
    /\ phase = "loop" /\ addon /\ writes < MaxWrites
    /\ Apply(save_pre(Mgr, now, accessible))
    /\ phase' = "save"
    /\ UNCHANGED <<now, scene, disk, addon, ctx, startup_timer, writes, time_text>>

\* the host writes the open document to its file
HostWrite ==
    /\ ~inflight
    /\ phase = "save" \/ (phase = "loop" /\ ~addon /\ writes < MaxWrites)
    /\ disk' = [disk EXCEPT ![scene] = data]
    /\ writes' = writes + 1
    /\ phase' = "loop"
    /\ UNCHANGED <<now, ManagerVars, scene, addon, ctx, startup_timer, time_text,
                   inflight>>

Next ==
    \/ Advance \/ HostContext \/ Register \/ Unregister \/ Startup
    \/ StartSession \/ StopSession \/ Reset
    \/ TimerCallback \/ InflightTick \/ ModalTimer
    \/ LoadPre \/ HostRead \/ LoadPost \/ SavePre \/ HostWrite

Spec == Init /\ [][Next]_vars

\* The status bar over a document that already holds a total: the add-on is
\* registered, the document is open with its stored total, and the host runs
\* sessions, timer callbacks, saves and redraws.
DrawTotals == {0, 55, 3595, 359995, 999990}

InitDraw ==
    /\ now = Quantum
    /\ is_running = FALSE
    /\ timer = None
    /\ last_update_time = 0
    /\ modal_operator_running = FALSE
    /\ \E total \in DrawTotals :
          data = [total_time |-> total,
                  session_start_time |-> IF total = 0 THEN 0 ELSE Quantum]
    /\ scene = "A"
    /\ disk = [d \in Docs |-> IF d = scene THEN data ELSE TimeKeeperData]
    /\ timers = 0
    /\ inflight = FALSE
    /\ modals = 0
    /\ addon = TRUE
    /\ ctx = TRUE
    /\ startup_timer = FALSE
    /\ phase = "loop"
    /\ writes = 0
    /\ time_text = <<>>
    /\ s_at = 0
    /\ s_total = 0

NextDraw ==
    \/ Advance \/ HostContext \/ StartSession \/ StopSession \/ TimerCallback
    \/ InflightTick \/ SavePre \/ HostWrite \/ DrawHeader

SpecDraw == InitDraw /\ [][NextDraw]_vars

TypeOK ==
    /\ now \in Quantum..MaxTime
    /\ is_running \in BOOLEAN
    /\ inflight \in BOOLEAN
    /\ timer \in {None, "handle"}
    /\ last_update_time \in 0..MaxTime
    /\ timers = (IF timer = None THEN 0 ELSE 1)
    /\ modals \in 0..MaxModals
    /\ data.total_time \in Nat /\ data.session_start_time \in 0..MaxTime

\* what get_current_total_time() returns in the current state
current_total == get_current_total_time(Mgr, now, accessible)

\* a step that takes the manager from Running to Idle (stop_session() ran,
\* called directly or by reset() or by the load_pre handler)
Stops == is_running /\ ~is_running'

\* ------------------------------------------------------------------ claims

\* C1: a session started at time s and stopped at time e with the record
\* readable adds exactly e - s to total_time, whatever timer callbacks, saves
\* and unreadable moments came between: nothing is lost, nothing counted twice.
C1_ExactSessionTime ==
    [][(Stops /\ accessible) => data'.total_time = s_total + (now - s_at)]_vars

\* C1 witness: a session begun at the first instant on a fresh record has been
\* stopped 25 s later, and the record holds 25.
C1_Witness ==
    /\ ~is_running /\ last_update_time = 0
    /\ data.session_start_time = Quantum /\ now = Quantum + 25
    /\ data.total_time = 25

\* C2: while Running (record readable) get_current_total_time() is the total
\* at start plus the time since start, however many periodic updates ran; a
\* stop stores exactly that value; and while Idle the value returned does not
\* move as time passes.
C2_LiveTotal ==
    /\ []((is_running /\ accessible) => current_total = s_total + (now - s_at))
    /\ [][(Stops /\ accessible /\ accessible')
            => (data'.total_time = current_total /\ current_total' = current_total)]_vars
    /\ [][(Advance /\ ~is_running /\ accessible) => current_total' = current_total]_vars

\* C2 witness: the scenario of the specification, 25 s into a session on a
\* fresh record: two periodic updates stored 20, the value shown is 25.
C2_Witness ==
    /\ is_running /\ accessible
    /\ s_total = 0 /\ now - s_at = 25
    /\ data.total_time = 20 /\ current_total = 25

\* C3: start_session() called while Running returns True and changes nothing:
\* is_running, the anchor, last_update_time, total_time and the timer
\* registration stay as they were, and so does get_current_total_time().
C3_StartIdempotent ==
    [][(StartSession /\ is_running)
         => /\ start_session_returns(Mgr, accessible) = TRUE
            /\ UNCHANGED <<is_running, data, last_update_time, timer, timers>>
            /\ current_total' = current_total]_vars

\* C3 witness: a Running session with its timer registered, past a periodic
\* update and with unflushed time, in which start_session() can be called
\* again (the call leaves this state as it is).
C3_Witness ==
    /\ is_running /\ phase = "loop" /\ accessible /\ timer # None
    /\ last_update_time > data.session_start_time /\ now > last_update_time

\* C4: the save_pre handler never adds to total_time and never changes
\* is_running or last_update_time; while Running (record readable) it sets
\* session_start_time to now and nothing else, so get_current_total_time()
\* is the same right after the handler as before it; while Idle it changes
\* nothing.
C4_SaveFrame ==
    [][SavePre
         => /\ data'.total_time = data.total_time
            /\ UNCHANGED <<is_running, last_update_time, timer, timers,
                           modal_operator_running, modals>>
            /\ (is_running /\ accessible) => data'.session_start_time = now
            /\ (~is_running) => data' = data
            /\ current_total' = current_total]_vars

\* C4 witness: the handler has just run in a Running session that had passed a
\* periodic update and holds unflushed time: the anchor is now, later than
\* last_update_time.
C4_Witness ==
    /\ phase = "save" /\ is_running /\ accessible
    /\ data.session_start_time = now /\ last_update_time < now
    /\ last_update_time > s_at /\ data.total_time > s_total

\* C5 (as amended): reset() always leaves the manager Idle with
\* last_update_time 0, no timer handle and the modal flag cleared, and never
\* changes session_start_time; total_time is unchanged when reset() is called
\* while Idle, but when called while Running with the record readable it is
\* flushed as by stop_session(): it grows by now - last_update_time.
C5_ResetFlushes ==
    [][Reset
         => /\ ~is_running' /\ last_update_time' = 0 /\ timer' = None
            /\ timers' = 0 /\ ~modal_operator_running'
            /\ data'.session_start_time = data.session_start_time
            /\ data'.total_time =
                 IF is_running /\ accessible
                 THEN data.total_time + (now - last_update_time)
                 ELSE data.total_time]_vars

\* C5 as stated: reset() leaves both fields of the record as they were.
C5_ResetLeavesRecord ==
    [][Reset => data' = data]_vars

\* C5 witness: reset() has just ended a session that had unflushed time: the
\* manager is Idle with the flag cleared while a modal operator still runs,
\* and the record holds the time up to now.
C5_Witness ==
    /\ ~is_running /\ last_update_time = 0 /\ timer = None
    /\ ~modal_operator_running /\ modals > 0
    /\ data.session_start_time = Quantum /\ now > Quantum
    /\ data.total_time = now - Quantum

ExpectedTotal ==
    IF is_running THEN data.total_time + (now - last_update_time)
    ELSE data.total_time

\* C7 (as amended): with the record readable get_current_total_time()
\* returns total_time when Idle and total_time + (now - last_update_time)
\* when Running, whatever session_start_time is (a save that moves the anchor
\* leaves the value as it was); the value returned is not clamped, the stored
\* total is not clamped either (a flush adds the whole interval), and only the
\* text drawn is that of the value clamped to 0..999999.
C7_Returns ==
    /\ [](accessible => current_total = ExpectedTotal)
    /\ [][SavePre => current_total' = current_total]_vars
    /\ [][(Stops /\ accessible)
            => data'.total_time = data.total_time + (now - last_update_time)]_vars
    /\ [][DrawHeader
            => time_text' = format_time(IF current_total > DisplayCeiling
                                        THEN DisplayCeiling ELSE current_total)]_vars

\* C7 as stated: the value returned is also within 0..999999.
C7_ReturnsClamped ==
    accessible => (current_total = ExpectedTotal /\ current_total \in 0..DisplayCeiling)

\* C7 witness: a Running session whose anchor a save has moved past
\* last_update_time, on a record whose total is beyond the display ceiling.
C7_Witness ==
    /\ is_running /\ accessible /\ phase = "loop"
    /\ data.session_start_time > last_update_time /\ now > data.session_start_time
    /\ data.total_time > DisplayCeiling

\* C8: start_session() called while Idle with the record unreadable returns
\* False and leaves the manager as it was (not running, last_update_time not
\* set, no timer registered); called while Idle with the record readable it
\* returns True and the session runs from now.
C8_StartFailsCleanly ==
    /\ [][(StartSession /\ ~is_running /\ ~accessible)
            => /\ start_session_returns(Mgr, accessible) = FALSE
               /\ ~is_running' /\ last_update_time' = last_update_time
               /\ timer' = None /\ timers' = 0 /\ data' = data]_vars
    /\ [][(StartSession /\ ~is_running /\ accessible)
            => /\ start_session_returns(Mgr, accessible) = TRUE
               /\ is_running' /\ last_update_time' = now]_vars

\* C8 witness: the add-on is registered, the scene is out of reach, the manager
\* is Idle with nothing registered after an earlier session on this record: a
\* start_session() here fails and leaves this state.
C8_Witness ==
    /\ phase = "loop" /\ addon /\ ~ctx
    /\ ~is_running /\ last_update_time = 0 /\ timer = None /\ timers = 0
    /\ data.total_time > 0

\* --- reading a drawn label back
DigitValue(c) == CHOOSE d \in 0..9 : Digit(d) = c

RECURSIVE NumberOf(_)
NumberOf(field) ==
    IF field = <<>> THEN 0
    ELSE 10 * NumberOf(SubSeq(field, 1, Len(field) - 1)) + DigitValue(field[Len(field)])

Colons(text) == {i \in 1..Len(text) : text[i] = ":"}
FirstColon(text) == CHOOSE i \in Colons(text) : \A j \in Colons(text) : i <= j
LastColon(text)  == CHOOSE i \in Colons(text) : \A j \in Colons(text) : i >= j
HourText(text)   == SubSeq(text, 1, FirstColon(text) - 1)
MinuteText(text) == SubSeq(text, FirstColon(text) + 1, LastColon(text) - 1)
SecondText(text) == SubSeq(text, LastColon(text) + 1, Len(text))

\* C9: the text drawn for a total of s seconds has three fields separated by
\* two colons; with c = s clamped to 0..999999 the fields read c div 3600,
\* (c mod 3600) div 60 and c mod 60; minutes and seconds have exactly 2
\* digits; the hour field has 2 digits when hours < 100 and is the plain
\* number, without leading zero, when hours >= 100; drawing leaves the record
\* as it was.
C9_DisplayFormat ==
    [][DrawHeader
         => LET c == IF current_total < 0 THEN 0
                     ELSE IF current_total > 999999 THEN 999999 ELSE current_total
                text == time_text'
                h == HourText(text)
                mi == MinuteText(text)
                se == SecondText(text)
            IN /\ Cardinality(Colons(text)) = 2
               /\ NumberOf(h) = c \div 3600
               /\ NumberOf(mi) = (c % 3600) \div 60
               /\ NumberOf(se) = c % 60
               /\ Len(mi) = 2 /\ Len(se) = 2
               /\ (c \div 3600 < 100) => Len(h) = 2
               /\ (c \div 3600 >= 100) => (Len(h) = 3 /\ h[1] # "0")
               /\ data' = data]_vars

\* C9 witness: the label shows the largest value, 277:46:39, over a record
\* whose total is above 999999.
C9_Witness ==
    /\ time_text = <<"2", "7", "7", ":", "4", "6", ":", "3", "9">>
    /\ data.total_time > 999999

\* C10: session_start_time is 0 whenever the manager is Idle, and otherwise a
\* timestamp not after now (stop_session() would set it to 0).
C10_AnchorZeroWhenIdle ==
    IF is_running
    THEN data.session_start_time > 0 /\ data.session_start_time <= now
    ELSE data.session_start_time = 0

\* C11: no step of the program lowers total_time: start, stop, reset, timer
\* callbacks, modal events, the load_pre / load_post / save_pre handlers,
\* startup, register and unregister all leave it as it was or raise it.  (The
\* host reading a file replaces the record; that step is the host's.)
C11_TotalNeverDecreases ==
    [][(~HostRead) => data'.total_time >= data.total_time]_vars

\* C11 witness: a record that was written with a total above 0 and has grown
\* since, with the manager Idle again.
C11_Witness ==
    /\ ~is_running /\ phase = "loop" /\ writes > 0
    /\ disk[scene].total_time > 0
    /\ data.total_time > disk[scene].total_time

\* C12: whenever is_running holds, session_start_time is above 0.
C12_RunningHasAnchor ==
    is_running => data.session_start_time > 0

\* C12 witness: a Running session past a periodic update whose anchor a save
\* has moved after that update.
C12_Witness ==
    /\ is_running /\ phase = "loop"
    /\ last_update_time > s_at
    /\ data.session_start_time > last_update_time

\* C13: a timer callback (record readable) changes nothing while
\* now - last_update_time < 10; with now - last_update_time >= 10 it adds
\* exactly that interval to total_time and sets last_update_time to now; it
\* never changes session_start_time or is_running; while Idle it changes
\* nothing of the manager or the record.  Stated of the steps the callback
\* takes and, for the calls that change nothing, of what the callback yields
\* in every reachable state.
C13_Throttle ==
    [][(TimerCallback /\ accessible)
         => /\ data'.session_start_time = data.session_start_time
            /\ is_running' = is_running
            /\ (is_running /\ now - last_update_time < 10)
                  => UNCHANGED <<data, last_update_time>>
            /\ (is_running /\ now - last_update_time >= 10)
                  => /\ data'.total_time = data.total_time + (now - last_update_time)
                     /\ last_update_time' = now
            /\ (~is_running) => UNCHANGED <<data, last_update_time>>]_vars
    /\ [](accessible
            => LET m == timer_callback(Mgr, now, accessible)
               IN /\ m.data.session_start_time = data.session_start_time
                  /\ m.is_running = is_running
                  /\ (is_running /\ now - last_update_time < 10)
                        => (m.data = data /\ m.last_update_time = last_update_time)
                  /\ (is_running /\ now - last_update_time >= 10)
                        => /\ m.data.total_time = data.total_time + (now - last_update_time)
                           /\ m.last_update_time = now
                  /\ (~is_running) => m = Mgr)

\* C13 witness: a periodic update has just run exactly 10 s after the session
\* began: the record holds those 10 s and last_update_time is now.
C13_Witness ==
    /\ is_running /\ accessible /\ timers > 0
    /\ now = s_at + 10 /\ last_update_time = now
    /\ data.total_time = s_total + 10

\* C14: right after a timer callback of a Running session (record readable)
\* the unflushed time now - last_update_time is below the 10 s interval,
\* whether the callback changed anything or not.
C14_BoundedLag ==
    /\ [][(TimerCallback /\ is_running /\ accessible)
            => now' - last_update_time' < update_interval]_vars
    /\ []((is_running /\ accessible)
            => now - timer_callback(Mgr, now, accessible).last_update_time
                  < update_interval)

\* C14 witness: 15 s went by without a callback and one has just run: the
\* record is up to date.
C14_Witness ==
    /\ is_running /\ accessible /\ timers > 0
    /\ now = s_at + 15 /\ last_update_time = now
    /\ data.total_time = s_total + 15

\* C15: a timer callback that runs while the manager is Idle, the one the
\* host had dispatched before the stop included, leaves total_time,
\* session_start_time, last_update_time and is_running as they were and
\* returns None, so the host does not run it again; no registration is left
\* once the manager is Idle; a callback that runs while Running returns 0.3
\* and stays registered.
C15_IdleTickIsNoOp ==
    /\ [][((TimerCallback \/ InflightTick) /\ ~is_running)
            => /\ UNCHANGED <<data, last_update_time, is_running, timer, timers>>
               /\ timer_callback_returns(Mgr) = {}]_vars
    /\ [][(TimerCallback /\ is_running)
            => /\ timer_callback_returns(Mgr) = {timer_interval}
               /\ timers' = timers /\ is_running']_vars
    /\ []((~is_running) => timers = 0)

\* C15 witness: a session with unflushed time was stopped while the host had
\* a callback dispatched; the manager is Idle, the record holds the session's
\* time, and that callback is about to run.
C15_Witness ==
    /\ inflight /\ ~is_running /\ timers = 0 /\ timer = None
    /\ last_update_time = 0 /\ data.total_time > 0 /\ accessible

\* C16: at most one modal operator runs at any time, and
\* modal_operator_running is true exactly when one runs.
C16_OneModalLoop ==
    /\ modals <= 1
    /\ modal_operator_running <=> (modals > 0)

\* C17: a TIMER event of the modal operator never changes total_time,
\* session_start_time, is_running or last_update_time (nor the timer); when
\* the session is not running the operator only cancels itself.
C17_ModalOnlyRefreshes ==
    [][ModalTimer
         => /\ UNCHANGED <<data, is_running, last_update_time, timer, timers>>
            /\ is_running => UNCHANGED <<modals, modal_operator_running>>
            /\ (~is_running) => (modals' = modals - 1 /\ ~modal_operator_running')]_vars

\* C17 witness: a modal operator runs beside a Running session that holds
\* unflushed time a periodic update would add.
C17_Witness ==
    /\ modals > 0 /\ is_running /\ accessible /\ phase = "loop"
    /\ now - last_update_time >= update_interval

\* C18: between load_pre and load_post the manager is Idle with no timer
\* registered; the load_pre handler (record readable) adds the whole of the
\* running session's unflushed time to the record of the document being
\* left; and the load_post handler leaves the total_time of the record just
\* read as the file had it.
C18_NoLeakAcrossDocuments ==
    /\ [](phase \in {"unload", "load"}
            => (~is_running /\ timer = None /\ timers = 0 /\ last_update_time = 0))
    /\ [][(LoadPre /\ is_running /\ accessible)
            => (scene' = scene /\ data'.total_time = s_total + (now - s_at))]_vars
    /\ [][LoadPost
            => (data.total_time = disk[scene].total_time
                /\ data'.total_time = data.total_time)]_vars

\* C18 witness: document A was saved with session time, the host has switched
\* to the fresh document B later on, and the session that load_post began on
\* B starts from B's total of 0.
C18_Witness ==
    /\ scene = "B" /\ phase = "loop" /\ is_running
    /\ disk["A"].total_time > 0 /\ disk["B"].total_time = 0
    /\ s_at > Quantum /\ s_total = 0 /\ data.total_time = now - s_at

\* a step in which bpy.app.timers.register raises
RegistrationRaises ==
    \/ Apply(start_session(Mgr, now, accessible, "raise"))
    \/ Apply(load_post(Mgr, now, accessible, "raise"))
    \/ \E op \in BOOLEAN : Apply(startup(Mgr, now, accessible, "raise", op))

\* C19: the host holds at most one registration of the timer callback, it
\* holds one exactly when the manager holds a handle, and a handle is held
\* only while Running; a Running manager is without a handle only from a step
\* in which the registration raised; so every step that makes the manager
\* Running with the registration succeeding ends with exactly one timer.
C19_OneTimer ==
    /\ [](timers <= 1 /\ (timers = 1 <=> timer # None) /\ (timer # None => is_running))
    /\ [][(is_running' /\ timer' = None)
            => ((is_running /\ timer = None) \/ RegistrationRaises)]_vars

\* C19 witness: a second session on the same record, begun after a stop, runs
\* with its one timer.
C19_Witness ==
    /\ is_running /\ timer # None /\ timers = 1
    /\ s_total > 0 /\ s_at > Quantum

\* C20: with the record readable before and after, no step of the program
\* lowers the value get_current_total_time() returns, and no step raises it
\* by more than the time that passed in that step while Running.  (The host
\* reading a file replaces the record; that step is the host's.)
C20_ReadoutMonotonic ==
    [][(accessible /\ accessible' /\ ~HostRead)
         => /\ current_total' >= current_total
            /\ current_total' - current_total <= (IF is_running THEN now' - now ELSE 0)]_vars

\* C20 witness: a second session on a record, past a periodic update and
\* with unflushed time: the value returned has grown through a stop, a start
\* and a periodic update.
C20_Witness ==
    /\ is_running /\ accessible /\ s_total > 0
    /\ data.total_time > s_total /\ current_total > data.total_time

\* C21: stop_session() called while Running with the record unreadable still
\* ends Idle: is_running is False, last_update_time is 0, the handle is
\* dropped and no registration is left, and the record is as it was (the
\* unflushed interval is dropped).  Stated of the steps in which a stop runs,
\* whoever calls it, and of what stop_session() yields in every reachable
\* Running state without the record.
C21_StopCompletes ==
    /\ [][(Stops /\ ~accessible)
            => /\ last_update_time' = 0 /\ timer' = None /\ timers' = 0
               /\ data' = data]_vars
    /\ [][(StopSession /\ is_running /\ ~accessible) => ~is_running']_vars
    /\ []((is_running /\ ~accessible)
            => LET m == stop_session(Mgr, now, accessible)
               IN /\ ~m.is_running /\ m.last_update_time = 0
                  /\ m.timer = None /\ m.timers = 0
                  /\ m.data = data)

\* C21 witness: a session that ran for some time on a fresh record has just
\* been stopped with the record out of reach (the callback the host had
\* dispatched is still to run): the manager is Idle, nothing is registered,
\* and the record still holds 0.
C21_Witness ==
    /\ inflight /\ ~is_running /\ ~accessible /\ ~ctx /\ addon
    /\ last_update_time = 0 /\ timer = None /\ timers = 0
    /\ data.total_time = 0
    /\ data.session_start_time > 0 /\ now > data.session_start_time

====
